---- MODULE Spec2Model ----
(***************************************************************************)
(* Model of student_code.py: VersatileDigraph (node and edge storage),     *)
(* SortableDigraph.top_sort, TraversableDigraph.dfs / bfs and DAG.add_edge *)
(* with its _has_path reachability check.                                  *)
(*                                                                         *)
(* A Python dict is modelled as a sequence of <<key, value>> pairs in      *)
(* insertion order, because get_nodes() and successors() expose that       *)
(* order.  Identifiers are strings and node values are numbers, so the     *)
(* isinstance checks of add_node / add_edge always pass for the inputs     *)
(* enumerated here.                                                        *)
(***************************************************************************)
EXTENDS Integers, Sequences, FiniteSets, TLC

VARIABLES kind, node_values, edge_weights, edge_names, edge_head, nops, last, gen,
          before

vars == <<kind, node_values, edge_weights, edge_names, edge_head, nops, last, gen,
          before>>

(* ---------------- bounds and input sets ---------------- *)

\* number of add_node / add_edge calls made on a TraversableDigraph object
MaxOps == 3

\* number of add_node / add_edge calls made on a DAG object
MaxDagOps == 4

\* number of add_node / add_edge calls that build a graph to be traversed
MaxEdits == 3

\* node identifiers the caller uses
Nodes == {"A", "B", "C"}

\* node values the caller passes to add_node
Values == {3}

\* keyword-argument dictionaries the caller passes to add_edge
Varargs == << <<>>,
              [weight |-> -1],
              [name |-> "x", edge_weight |-> 2, weight |-> -1,
               start_node_value |-> 1, end_node_value |-> 2] >>

\* top_sort, dfs and bfs read the keys of the edge tables only, never a name,
\* a weight or a node value: the graphs they are run on are built by add_edge
\* calls without keyword arguments
TraversedVarargs == << <<>> >>

\* Python's None, as the default of the start parameter of dfs / bfs
None == "None"

(* ---------------- dict (insertion ordered) ---------------- *)

EmptyDict == <<>>

Keys(d) == [i \in 1..Len(d) |-> d[i][1]]

KeySet(d) == {d[i][1] : i \in 1..Len(d)}

Has(d, k) == k \in KeySet(d)

Get(d, k) == d[CHOOSE i \in 1..Len(d) : d[i][1] = k][2]

\* d[k] = v : an existing key keeps its position, a new key goes last
Put(d, k, v) ==
    IF Has(d, k)
    THEN [i \in 1..Len(d) |-> IF d[i][1] = k THEN <<k, v>> ELSE d[i]]
    ELSE Append(d, <<k, v>>)

\* vararg.get(key, default)
VarargGet(vararg, key, default) ==
    IF key \in DOMAIN vararg THEN vararg[key] ELSE default

SeqToSet(s) == {s[i] : i \in 1..Len(s)}

(* ---------------- VersatileDigraph ---------------- *)

\* the object: its four dictionaries
Self == [node_values  |-> node_values,
         edge_weights |-> edge_weights,
         edge_names   |-> edge_names,
         edge_head    |-> edge_head]

NewGraph == [node_values  |-> EmptyDict,
             edge_weights |-> EmptyDict,
             edge_names   |-> EmptyDict,
             edge_head    |-> EmptyDict]

get_nodes(self) == Keys(self.node_values)

NodeSet(self) == KeySet(self.node_values)

\* mutant: re-adding a node keeps the edges recorded under it
add_node_keep_edges(self, node_id, node_value) ==
    IF Has(self.node_values, node_id)
    THEN [self EXCEPT !.node_values = Put(@, node_id, node_value)]
    ELSE [node_values  |-> Put(self.node_values, node_id, node_value),
          edge_weights |-> Put(self.edge_weights, node_id, EmptyDict),
          edge_names   |-> Put(self.edge_names, node_id, EmptyDict),
          edge_head    |-> Put(self.edge_head, node_id, EmptyDict)]

add_node(self, node_id, node_value) ==
    [node_values  |-> Put(self.node_values, node_id, node_value),
     edge_weights |-> Put(self.edge_weights, node_id, EmptyDict),
     edge_names   |-> Put(self.edge_names, node_id, EmptyDict),
     edge_head    |-> Put(self.edge_head, node_id, EmptyDict)]

\* result of a call: the object afterwards, the exception raised ("none" if
\* the call returned) and the value returned
Ret(self, exc, value) == [self |-> self, exc |-> exc, value |-> value]

add_edge(self, tail, head, vararg) ==
    LET s1 == IF tail \notin NodeSet(self)
              THEN add_node(self, tail, VarargGet(vararg, "start_node_value", 0))
              ELSE self
        s2 == IF head \notin NodeSet(s1)
              THEN add_node(s1, head, VarargGet(vararg, "end_node_value", 0))
              ELSE s1
        edge_name == VarargGet(vararg, "name", tail \o " to " \o head)
        s3 == [s2 EXCEPT
                 !.edge_names = Put(@, tail, Put(Get(@, tail), head, edge_name)),
                 !.edge_head  = Put(@, tail, Put(Get(@, tail), head, head))]
        weight == VarargGet(vararg, "edge_weight", VarargGet(vararg, "weight", 0))
    IN  IF weight >= 0
        THEN Ret([s3 EXCEPT
                    !.edge_weights = Put(@, tail, Put(Get(@, tail), head, weight))],
                 "none", None)
        ELSE Ret(s3, "ValueError: weight", None)

get_edge_weight(self, tail, head) ==
    IF tail \notin NodeSet(self) THEN Ret(self, "KeyError", None)
    ELSE IF head \notin NodeSet(self) THEN Ret(self, "KeyError", None)
    ELSE IF ~Has(Get(self.edge_weights, tail), head) THEN Ret(self, "KeyError", None)
    ELSE Ret(self, "none", Get(Get(self.edge_weights, tail), head))

get_node_value(self, node) ==
    IF node \notin NodeSet(self) THEN Ret(self, "KeyError", None)
    ELSE Ret(self, "none", Get(self.node_values, node))

\* successors / predecessors of a node that is present (the callers below
\* test presence where the code can raise KeyError)
successors(self, node) == Keys(Get(self.edge_names, node))

predecessors(self, node) ==
    SelectSeq(get_nodes(self), LAMBDA n : Has(Get(self.edge_names, n), node))

in_degree(self, node) == Len(predecessors(self, node))

out_degree(self, node) == Len(successors(self, node))

(* ---------------- SortableDigraph ---------------- *)

RECURSIVE top_sort_for(_, _, _)
\* lines 150-153: the for loop over the successors of the dequeued node
top_sort_for(in_deg, queue, neighbors) ==
    IF neighbors = <<>>
    THEN [in_degree |-> in_deg, queue |-> queue]
    ELSE LET neighbor == Head(neighbors)
             d == [in_deg EXCEPT ![neighbor] = @ - 1]
         IN  top_sort_for(d,
                          IF d[neighbor] = 0 THEN Append(queue, neighbor) ELSE queue,
                          Tail(neighbors))

RECURSIVE top_sort_while(_, _, _, _)
\* lines 144-153: the while loop, queue.pop(0) is FIFO
top_sort_while(self, in_deg, queue, result) ==
    IF queue = <<>>
    THEN result
    ELSE LET node == Head(queue)
             r == top_sort_for(in_deg, Tail(queue), successors(self, node))
         IN  top_sort_while(self, r.in_degree, r.queue, Append(result, node))

\* mutant: the length of the result is not compared with the node count
top_sort_unchecked(self) ==
    LET in_deg == [node \in NodeSet(self) |-> in_degree(self, node)]
        queue == SelectSeq(get_nodes(self), LAMBDA node : in_deg[node] = 0)
    IN  Ret(self, "none", top_sort_while(self, in_deg, queue, <<>>))

top_sort(self) ==
    LET in_deg == [node \in NodeSet(self) |-> in_degree(self, node)]
        queue == SelectSeq(get_nodes(self), LAMBDA node : in_deg[node] = 0)
        result == top_sort_while(self, in_deg, queue, <<>>)
    IN  IF Len(result) # Len(get_nodes(self))
        THEN Ret(self, "ValueError: cycle", None)
        ELSE Ret(self, "none", result)

(* ---------------- TraversableDigraph.dfs ---------------- *)

RECURSIVE recursive_dfs(_, _, _, _)
RECURSIVE dfs_for(_, _, _, _)
\* mutant: the starting node is appended to the result like any other
recursive_dfs_with_start(self, start, node, st) ==
    IF node \notin st.visited
    THEN dfs_for(self, start, successors(self, node),
                 [visited |-> st.visited \cup {node},
                  result  |-> Append(st.result, node)])
    ELSE st

\* st = [visited, result], the two closure variables of recursive_dfs
recursive_dfs(self, start, node, st) ==
    IF node \notin st.visited
    THEN dfs_for(self, start, successors(self, node),
                 [visited |-> st.visited \cup {node},
                  result  |-> IF node # start THEN Append(st.result, node)
                                              ELSE st.result])
    ELSE st

dfs_for(self, start, neighbors, st) ==
    IF neighbors = <<>>
    THEN st
    ELSE dfs_for(self, start, Tail(neighbors),
                 recursive_dfs(self, start, Head(neighbors), st))

dfs(self, start) ==
    IF start = None /\ get_nodes(self) = <<>>
    THEN Ret(self, "none", <<>>)
    ELSE LET s == IF start = None THEN get_nodes(self)[1] ELSE start
         IN  IF s \notin NodeSet(self)
             THEN Ret(self, "KeyError", None)      \* raised by successors(start)
             ELSE Ret(self, "none",
                      recursive_dfs(self, s, s, [visited |-> {}, result |-> <<>>]).result)

(* ---------------- TraversableDigraph.bfs (a generator) ---------------- *)

\* no generator object
\* emitted: what the consumer has received so far
GenNone == [pc |-> "none", arg |-> None, start |-> None, visited |-> {},
            queue |-> <<>>, rest |-> <<>>, emitted |-> <<>>, exc |-> "none",
            pulls |-> 0]

\* bfs(start) was called: the generator exists, its body has not run yet
GenCreated(start) == [GenNone EXCEPT !.pc = "created", !.arg = start]

RECURSIVE bfs_resume(_, _)
\* mutant: queue.pop() in place of queue.popleft()
bfs_resume_pop_right(self, g) ==
    IF g.rest # <<>>
    THEN LET neighbor == Head(g.rest)
         IN  IF neighbor \notin g.visited
             THEN [g EXCEPT !.visited = @ \cup {neighbor},
                            !.queue   = Append(@, neighbor),
                            !.rest    = Tail(@),
                            !.emitted = Append(@, neighbor)]
             ELSE bfs_resume(self, [g EXCEPT !.rest = Tail(@)])
    ELSE IF g.queue # <<>>
    THEN bfs_resume(self, [g EXCEPT !.pc    = "loop",
                                    !.queue = SubSeq(@, 1, Len(@) - 1),
                                    !.rest  = successors(self, g.queue[Len(g.queue)])])
    ELSE [g EXCEPT !.pc = "done"]

\* run the body from a for loop (rest = the neighbours not yet looked at) to
\* the next yield (pc "seed": line 214, pc "loop": line 224) or to the end
bfs_resume(self, g) ==
    IF g.rest # <<>>
    THEN LET neighbor == Head(g.rest)
         IN  IF neighbor \notin g.visited
             THEN [g EXCEPT !.visited = @ \cup {neighbor},
                            !.queue   = Append(@, neighbor),
                            !.rest    = Tail(@),
                            !.emitted = Append(@, neighbor)]
             ELSE bfs_resume(self, [g EXCEPT !.rest = Tail(@)])
    ELSE IF g.queue # <<>>
    THEN bfs_resume(self, [g EXCEPT !.pc    = "loop",
                                    !.queue = Tail(@),
                                    !.rest  = successors(self, Head(g.queue))])
    ELSE [g EXCEPT !.pc = "done"]

\* the first next(): lines 199-214
bfs_first(self, g) ==
    IF g.arg = None /\ get_nodes(self) = <<>>
    THEN [g EXCEPT !.pc = "done"]
    ELSE LET s == IF g.arg = None THEN get_nodes(self)[1] ELSE g.arg
         IN  IF s \notin NodeSet(self)
             THEN [g EXCEPT !.pc = "done", !.start = s, !.exc = "KeyError"]
             ELSE bfs_resume(self, [g EXCEPT !.pc = "seed", !.start = s,
                                             !.rest = successors(self, s)])

\* next(generator)
bfs_next(self, g) ==
    IF g.pc = "created" THEN bfs_first(self, g) ELSE bfs_resume(self, g)

(* ---------------- DAG ---------------- *)

RECURSIVE has_path_for(_, _, _, _)
\* lines 256-261: found, or the visited set and queue after the loop
has_path_for(target, neighbors, visited, queue) ==
    IF neighbors = <<>>
    THEN [found |-> FALSE, visited |-> visited, queue |-> queue]
    ELSE LET neighbor == Head(neighbors)
         IN  IF neighbor = target
             THEN [found |-> TRUE, visited |-> visited, queue |-> queue]
             ELSE IF neighbor \notin visited
             THEN has_path_for(target, Tail(neighbors),
                               visited \cup {neighbor}, Append(queue, neighbor))
             ELSE has_path_for(target, Tail(neighbors), visited, queue)

RECURSIVE has_path_while(_, _, _, _)
\* mutant: only the successors of the first node of the queue are searched
has_path_while_shallow(self, target, visited, queue) ==
    IF queue = <<>>
    THEN FALSE
    ELSE has_path_for(target, successors(self, Head(queue)), visited, Tail(queue)).found

has_path_while(self, target, visited, queue) ==
    IF queue = <<>>
    THEN FALSE
    ELSE LET current == Head(queue)
             r == has_path_for(target, successors(self, current), visited, Tail(queue))
         IN  IF r.found THEN TRUE
             ELSE has_path_while(self, target, r.visited, r.queue)

\* mutant: start = target is not taken as a path
has_path_no_self(self, start, target) ==
    IF start \notin NodeSet(self)
    THEN Ret(self, "KeyError", None)
    ELSE Ret(self, "none", has_path_while(self, target, {start}, <<start>>))

\* _has_path(start, target)
has_path(self, start, target) ==
    IF start = target THEN Ret(self, "none", TRUE)
    ELSE IF start \notin NodeSet(self)
    THEN Ret(self, "KeyError", None)               \* raised by successors(start)
    ELSE Ret(self, "none", has_path_while(self, target, {start}, <<start>>))

DAG_add_edge(self, tail, head, vararg) ==
    LET hp == has_path(self, head, tail)
    IN  IF hp.exc # "none" THEN Ret(self, hp.exc, None)
        ELSE IF hp.value THEN Ret(self, "ValueError: cycle", None)
        ELSE add_edge(self, tail, head, vararg)

(* ---------------- the object and its callers ---------------- *)

Idle == [op |-> "init", exc |-> "none"]

\* kind: the class of the object; last: the last call, its arguments and how
\* it ended; before: the object as it was when that call was made; gen: the
\* generator the last bfs call returned; nops: add_node / add_edge calls so far
InitOf(class) ==
    /\ kind = class
    /\ node_values = EmptyDict
    /\ edge_weights = EmptyDict
    /\ edge_names = EmptyDict
    /\ edge_head = EmptyDict
    /\ nops = 0
    /\ last = Idle
    /\ gen = GenNone
    /\ before = NewGraph

Init == InitOf("TraversableDigraph")

InitDAG == InitOf("DAG")

Store(self) ==
    /\ node_values' = self.node_values
    /\ edge_weights' = self.edge_weights
    /\ edge_names' = self.edge_names
    /\ edge_head' = self.edge_head

\* a call on the object; a generator still running is abandoned
Call ==
    /\ before' = Self
    /\ UNCHANGED kind

\* a call that does not change the graph
Query ==
    /\ Call
    /\ UNCHANGED <<node_values, edge_weights, edge_names, edge_head, nops>>

\* a call of add_node or add_edge, the max-th at most
Edit(max) ==
    /\ Call
    /\ nops < max
    /\ nops' = nops + 1
    /\ gen' = GenNone

AddNode(max, node_id, node_value) ==
    /\ Edit(max)
    /\ Store(add_node(Self, node_id, node_value))
    /\ last' = [op |-> "add_node", node_id |-> node_id, node_value |-> node_value,
                exc |-> "none"]

\* a DAG object runs DAG.add_edge, any other the inherited add_edge
AddEdge(max, tail, head, vararg) ==
    /\ Edit(max)
    /\ LET r == IF kind = "DAG" THEN DAG_add_edge(Self, tail, head, vararg)
                                ELSE add_edge(Self, tail, head, vararg)
       IN  /\ Store(r.self)
           /\ last' = [op |-> "add_edge", tail |-> tail, head |-> head,
                       vararg |-> vararg, exc |-> r.exc]

TopSort ==
    /\ Query
    /\ gen' = GenNone
    /\ LET r == top_sort(Self)
       IN  last' = [op |-> "top_sort", exc |-> r.exc, value |-> r.value]

Dfs(start) ==
    /\ Query
    /\ gen' = GenNone
    /\ LET r == dfs(Self, start)
       IN  last' = [op |-> "dfs", start |-> start, exc |-> r.exc, value |-> r.value]

\* calling bfs only creates the generator
Bfs(start) ==
    /\ Query
    /\ gen' = GenCreated(start)
    /\ last' = [op |-> "bfs", start |-> start, exc |-> "none"]

\* the consumer pulls the next element, as list(bfs(start)) does until the
\* generator is exhausted
BfsNext ==
    /\ gen.pc \in {"created", "seed", "loop"}
    /\ gen' = [bfs_next(Self, gen) EXCEPT !.pulls = @ + 1]
    /\ UNCHANGED <<kind, node_values, edge_weights, edge_names, edge_head, nops,
                   last, before>>

\* the caller's add_node / add_edge calls, add_edge with one of the
\* keyword-argument dictionaries of varargs
Mutate(max, varargs) ==
    \/ \E node_id \in Nodes, node_value \in Values : AddNode(max, node_id, node_value)
    \/ \E tail \in Nodes, head \in Nodes, i \in 1..Len(varargs) :
          AddEdge(max, tail, head, varargs[i])

Next ==
    \/ Mutate(MaxEdits, TraversedVarargs)
    \/ TopSort
    \/ \E start \in Nodes \cup {None} : Dfs(start)
    \/ \E start \in Nodes \cup {None} : Bfs(start)
    \/ BfsNext

NextBuild == Mutate(MaxOps, Varargs)

NextDAG == Mutate(MaxDagOps, Varargs)

\* a TraversableDigraph object: a graph built by MaxEdits calls, and every
\* query on it
Spec == Init /\ [][Next]_vars

\* a TraversableDigraph object: the calls that build the graph
SpecBuild == Init /\ [][NextBuild]_vars

\* a DAG object: the calls that build the graph
SpecDAG == InitDAG /\ [][NextDAG]_vars

(* ---------------- what the claims speak of ---------------- *)

\* the edge relation successors() reports
Edges(self) ==
    UNION {{<<u, v>> : v \in SeqToSet(successors(self, u))} : u \in NodeSet(self)}

Succ(E, S) == {e[2] : e \in {d \in E : d[1] \in S}}

RECURSIVE Closure(_, _)
Closure(E, S) ==
    LET T == S \cup Succ(E, S)
    IN  IF T = S THEN S ELSE Closure(E, T)

\* the nodes a path of at least one edge leads to from u
Reach(self, u) == Closure(Edges(self), Succ(Edges(self), {u}))

Acyclic(self) == \A u \in NodeSet(self) : u \notin Reach(self, u)

RECURSIVE LevelOf(_, _, _, _)
LevelOf(E, frontier, v, k) ==
    IF v \in frontier THEN k ELSE LevelOf(E, Succ(E, frontier), v, k + 1)

\* length of the shortest path of at least one edge from u to v in Reach(self, u)
Dist(self, u, v) == LevelOf(Edges(self), Succ(Edges(self), {u}), v, 1)

NoDup(s) == \A i, j \in 1..Len(s) : i # j => s[i] # s[j]

\* the weight an add_edge call passes
WeightOf(vararg) == VarargGet(vararg, "edge_weight", VarargGet(vararg, "weight", 0))

Pos(s, x) == CHOOSE i \in 1..Len(s) : s[i] = x

\* r lists every node once, and the tail of every edge before its head
IsTopOrder(self, r) ==
    /\ Len(r) = Cardinality(NodeSet(self))
    /\ SeqToSet(r) = NodeSet(self)
    /\ \A e \in Edges(self) : Pos(r, e[1]) < Pos(r, e[2])

\* the node a traversal called with start begins at
StartOf(self, start) == IF start = None THEN get_nodes(self)[1] ELSE start

(* ---------------- C1 ---------------- *)

\* C1: on a DAG object, after any sequence of add_node and add_edge calls,
\* accepted or rejected, the edge relation successors() reports has no
\* directed cycle and no self-loop.
C1_DagAcyclic == kind = "DAG" => Acyclic(Self)

\* a DAG with two edges or more on which an add_edge that is no self-loop
\* has just been rejected as closing a cycle
C1_Witness ==
    /\ kind = "DAG"
    /\ last.op = "add_edge"
    /\ last.exc = "ValueError: cycle"
    /\ last.tail # last.head
    /\ Cardinality(Edges(Self)) >= 2

(* ---------------- C2 ---------------- *)

\* C2: an add_edge rejected for a negative weight leaves the graph exactly
\* as it was: nodes, values, successors, names and weights.
C2_RejectedWeightLeavesGraph ==
    (last.op = "add_edge" /\ last.exc = "ValueError: weight") => Self = before

(* ---------------- C3 ---------------- *)

\* C3: on a DAG object, add_edge(tail, head) with tail # head, a weight >= 0
\* and no path from head to tail succeeds and leaves the state the base
\* add_edge would leave, absent endpoints created.
C3_DagAddEdgeDelegates ==
    (/\ kind = "DAG"
     /\ last.op = "add_edge"
     /\ last.tail # last.head
     /\ WeightOf(last.vararg) >= 0
     /\ last.tail \notin Reach(before, last.head))
    => /\ last.exc = "none"
       /\ Self = add_edge(before, last.tail, last.head, last.vararg).self

(* ---------------- C4 ---------------- *)

\* C4: on a DAG object, add_edge(tail, head) fails with the cycle error
\* whenever tail = head or a path from head to tail exists, and the graph is
\* then what it was before the call.
C4_CycleRejected ==
    (/\ kind = "DAG"
     /\ last.op = "add_edge"
     /\ (last.tail = last.head \/ last.tail \in Reach(before, last.head)))
    => /\ last.exc = "ValueError: cycle"
       /\ Self = before

\* the rejected edge would have closed a cycle of three edges or more
C4_Witness ==
    /\ kind = "DAG"
    /\ last.op = "add_edge"
    /\ last.exc = "ValueError: cycle"
    /\ last.tail # last.head
    /\ last.tail \in Reach(before, last.head)
    /\ <<last.head, last.tail>> \notin Edges(before)

(* ---------------- C5 ---------------- *)

\* C5: top_sort() on an acyclic graph returns every node exactly once with
\* the tail of every edge before its head; on a graph with a directed cycle
\* (a self-loop included) it fails with the cycle error.
C5_TopSort ==
    last.op = "top_sort" =>
        IF Acyclic(Self)
        THEN last.exc = "none" /\ IsTopOrder(Self, last.value)
        ELSE last.exc = "ValueError: cycle"

\* a sort that returned, of a graph with two edges, in another order than
\* the insertion order of the nodes
C5_Witness ==
    /\ last.op = "top_sort"
    /\ last.exc = "none"
    /\ Cardinality(Edges(Self)) >= 2
    /\ last.value # get_nodes(Self)

(* ---------------- C6 ---------------- *)

\* C6: the sequence bfs(start) produces never contains the start node,
\* whatever the graph (cyclic, or with a self-loop on start).
C6_BfsNeverEmitsStart == gen.start \notin SeqToSet(gen.emitted)

(* ---------------- C7 ---------------- *)

\* C7: dfs(start) returns, and what it returns never contains start, contains
\* no node twice, and contains exactly the nodes other than start reachable
\* from start; on an empty graph dfs() returns the empty sequence.
C7_Dfs ==
    last.op = "dfs" =>
        IF last.start = None /\ get_nodes(Self) = <<>>
        THEN last.exc = "none" /\ last.value = <<>>
        ELSE LET s == StartOf(Self, last.start)
             IN  s \in NodeSet(Self) =>
                    /\ last.exc = "none"
                    /\ s \notin SeqToSet(last.value)
                    /\ NoDup(last.value)
                    /\ SeqToSet(last.value) = Reach(Self, s) \ {s}

\* a dfs from a node that lies on a cycle, which visited another node
C7_Witness ==
    /\ last.op = "dfs"
    /\ last.exc = "none"
    /\ last.start \in NodeSet(Self)
    /\ last.start \in Reach(Self, last.start)
    /\ Len(last.value) >= 1

(* ---------------- C8 ---------------- *)

\* C8: re-adding an existing node with add_node(id, v) sets its value to v
\* and empties successors(id); the value and the outgoing edges of every
\* other node (edges into id included) and the order of get_nodes() stay.
C8_ReAddNode ==
    (last.op = "add_node" /\ last.node_id \in NodeSet(before)) =>
        /\ get_node_value(Self, last.node_id).exc = "none"
        /\ get_node_value(Self, last.node_id).value = last.node_value
        /\ successors(Self, last.node_id) = <<>>
        /\ get_nodes(Self) = get_nodes(before)
        /\ \A n \in NodeSet(before) \ {last.node_id} :
              /\ Get(Self.node_values, n) = Get(before.node_values, n)
              /\ Get(Self.edge_names, n) = Get(before.edge_names, n)
              /\ Get(Self.edge_weights, n) = Get(before.edge_weights, n)
              /\ Get(Self.edge_head, n) = Get(before.edge_head, n)

\* the re-added node had another value, an outgoing edge and an incoming one
C8_Witness ==
    /\ last.op = "add_node"
    /\ last.node_id \in NodeSet(before)
    /\ Get(before.node_values, last.node_id) # last.node_value
    /\ successors(before, last.node_id) # <<>>
    /\ \E n \in NodeSet(before) \ {last.node_id} :
          last.node_id \in SeqToSet(successors(before, n))

(* ---------------- C9 ---------------- *)

IsSuffix(q, s) ==
    /\ Len(q) <= Len(s)
    /\ q = SubSeq(s, Len(s) - Len(q) + 1, Len(s))

C10_EdgeTablesAgree ==
    /\ \A u \in NodeSet(Self) : \A v \in SeqToSet(successors(Self, u)) :
          /\ get_edge_weight(Self, u, v).exc = "none"
          /\ get_edge_weight(Self, u, v).value >= 0
    /\ (/\ last.op = "add_edge"
        /\ last.tail \in NodeSet(Self)
        /\ last.head \in SeqToSet(successors(Self, last.tail)))
       => /\ get_edge_weight(Self, last.tail, last.head).exc = "none"
          /\ get_edge_weight(Self, last.tail, last.head).value = WeightOf(last.vararg)

====
